---- MODULE Spec2Model ----
(***************************************************************************)
(* A model of sfntshape: the 26.6 fixed-point helpers (fixed.go), the      *)
(* Shape path builder, and the rasterization driver.                       *)
(*                                                                         *)
(* Numbers.  A fixed.Int26_6 is an int32 counting 1/64ths.  A float64 or   *)
(* float32 is modelled by the integer number of 1/256ths it holds; every   *)
(* float the model meets is a multiple of 1/256 of small magnitude, so the *)
(* float operations of the code are exact on them.                         *)
(*                                                                         *)
(* Every integer the model reaches lies far inside the int32 range, so   *)
(* the code's int32 (and int64) arithmetic is plain integer arithmetic     *)
(* there; TLC's integers are 32 bits wide and TLC stops with an error,     *)
(* never wraps, should a value leave that range.                           *)
(*                                                                         *)
(* Memory.  A Go slice is a header [arr, len, cap] over an array of the    *)
(* heap; two headers with the same arr share storage.                      *)
(***************************************************************************)
EXTENDS Integers, Sequences, FiniteSets, TLC

VARIABLES
    heap,        \* array id -> backing array (a sequence of cap Segments)
    segments,    \* Shape.segments: slice header [arr, len, cap]
    scale,       \* Shape.scale (Fract)
    invertY,     \* Shape.invertY
    rasterizer,  \* Shape.rasterizer: the vector.Rasterizer's observable state
    view,        \* the sfnt.Segments a caller holds from Shape.Segments()
    ret,         \* what the last call returned (and what it was given)
    log,         \* history: per stored command, the raw input and the
                 \* settings in effect when it was appended
    fresh,       \* history: a Shape built by New() at the last Reset, given
                 \* the same calls as the Shape since
    twin,        \* history: as fresh, but first given the Shape's scale and
                 \* invert-Y setting at the Reset
    scaleArg,    \* history: the float64 last given to SetScale
    stale,       \* history of the view: whether Reset was called since it
                 \* was taken (and the capacity that Reset kept), and
                 \* whether an append took new storage since
    nops         \* number of calls made so far

vars == << heap, segments, scale, invertY, rasterizer, view, ret, log,
           fresh, twin, scaleArg, stale, nops >>

-----------------------------------------------------------------------------
(* Bounds of the model *)

MaxOps == 4

MaxAliasOps == 12

MaxFloat == 640

-----------------------------------------------------------------------------
(* Machine integers *)

Abs(v) == IF v < 0 THEN -v ELSE v

\* Go's float-to-integer conversion: truncation toward zero.
\* f is a float in 1/256ths; the result is an integer.
FloatToInt(f) == IF f >= 0 THEN f \div 256 ELSE -((-f) \div 256)

\* float32(n) for an integer n: n rounded to 24 significant bits,
\* ties to even.
RECURSIVE F32Quantum(_)
F32Quantum(a) == IF a < 16777216 THEN 1 ELSE 2 * F32Quantum(a \div 2)

Float32(n) ==
    LET q  == F32Quantum(Abs(n))
        lo == (n \div q) * q
        r  == n - lo
    IN  IF 2 * r < q THEN lo
        ELSE IF 2 * r > q THEN lo + q
        ELSE IF (lo \div q) % 2 = 0 THEN lo ELSE lo + q

-----------------------------------------------------------------------------
(* fixed.go: helpers *)

\* value & ^0x3F on a two's complement int32
fixedFloor(value) == value - (value % 64)

\* value & 0x3F
fixedFract(value) == value % 64

\* int(value) >> 6 (arithmetic shift)
fixedToIntFloor(value) == value \div 64

\* float32(value)/64.0, in 1/256ths
fixedToF32(value) == Float32(value) * 4

\* float64(value)/64.0, in 1/256ths
fixedToF64(value) == value * 4

\* fixed.Int26_6.Ceil: int((x + 0x3f) >> 6)
Ceil(x) == (x + 63) \div 64

\* fixed.Int26_6.Mul: Int26_6((int64(x)*int64(y) + 1<<5) >> 6)
Mul(x, y) == (x * y + 32) \div 64

\* A plausible slip: the tie test written with > instead of >=.
fixedFromFloat64TieDown(value) ==
    LET fractApprox0 == (FloatToInt(value * 64))
        fp64Approx0  == fixedToF64(fractApprox0)
        fractApprox1 == IF fp64Approx0 > value THEN fractApprox0 - 1
                        ELSE fractApprox0
        fp64Approx1  == fixedToF64(fractApprox1)
    IN  IF fp64Approx0 = value THEN fractApprox0
        ELSE IF value - fp64Approx1 > 2 THEN fractApprox1 + 1
        ELSE fractApprox1

\* value and the result's reconstruction are floats in 1/256ths;
\* 0.0078125 is 2/256.
fixedFromFloat64(value) ==
    LET fractApprox0 == (FloatToInt(value * 64))
        fp64Approx0  == fixedToF64(fractApprox0)
        fractApprox1 == IF fp64Approx0 > value THEN fractApprox0 - 1
                        ELSE fractApprox0
        fp64Approx1  == fixedToF64(fractApprox1)
    IN  IF fp64Approx0 = value THEN fractApprox0
        ELSE IF value - fp64Approx1 >= 2 THEN fractApprox1 + 1
        ELSE fractApprox1

-----------------------------------------------------------------------------
(* Path commands (sfnt.Segment) *)

Point(x, y) == [X |-> x, Y |-> y]

ZeroPoint == Point(0, 0)

Segment(op, a0, a1, a2) == [Op |-> op, Args |-> << a0, a1, a2 >>]

\* The zero value of sfnt.Segment: SegmentOpMoveTo is the zero SegmentOp.
ZeroSegment == Segment("MoveTo", ZeroPoint, ZeroPoint, ZeroPoint)

\* How many of a segment's Args its Op uses.
NArgs(op) == CASE op = "QuadTo" -> 2 [] op = "CubeTo" -> 3 [] OTHER -> 1

-----------------------------------------------------------------------------
(* Slices *)

ArrIds == 1 .. 3

NilSlice == [arr |-> 0, len |-> 0, cap |-> 0]

\* The elements a slice header shows.
Elems(h, s) == IF s.len = 0 THEN << >> ELSE SubSeq(h[s.arr], 1, s.len)

\* The heap restricted to the arrays some header still references.
Collect(h, refs) ==
    [a \in {s.arr : s \in refs} \cap DOMAIN h |-> h[a]]

\* make([]sfnt.Segment, 0, 8)
InitCap == 8

\* The runtime's growth of a full slice by one element: for these sizes
\* the capacity doubles.
GrowCap(c) == IF c = 0 THEN 1 ELSE 2 * c

\* append(s, seg): in place while len < cap, else into a new array.
\* Gives the new heap and the new header.
AppendSlice(h, s, seg) ==
    IF s.len < s.cap
    THEN [heap  |-> [h EXCEPT ![s.arr][s.len + 1] = seg],
          slice |-> [s EXCEPT !.len = s.len + 1]]
    ELSE LET a  == CHOOSE i \in ArrIds \ DOMAIN h :
                       \A j \in ArrIds \ DOMAIN h : i <= j
             c  == GrowCap(s.cap)
             old == Elems(h, s)
             new == [i \in 1 .. c |->
                        IF i <= s.len THEN old[i]
                        ELSE IF i = s.len + 1 THEN seg
                        ELSE ZeroSegment]
         IN  [heap  |-> [i \in DOMAIN h \cup {a} |->
                            IF i = a THEN new ELSE h[i]],
              slice |-> [arr |-> a, len |-> s.len + 1, cap |-> c]]

-----------------------------------------------------------------------------
(* Shape: construction and settings *)

\* scale: 64 in New()
IdentityScale == 64

NoArg == [set |-> FALSE, f |-> 0]

NoShape == [live |-> FALSE, segments |-> << >>,
            scale |-> IdentityScale, invertY |-> FALSE,
            scale0 |-> IdentityScale, invertY0 |-> FALSE]

\* New(), as a value: no commands, scale 64, invertY false.  scale0 and
\* invertY0 keep the settings the value started with.
NewShape == [live |-> TRUE, segments |-> << >>,
             scale |-> IdentityScale, invertY |-> FALSE,
             scale0 |-> IdentityScale, invertY0 |-> FALSE]

\* New() followed by SetScaleFract(s) and InvertY(inv).
NewShapeSet(s, inv) == [live |-> TRUE, segments |-> << >>,
                        scale |-> s, invertY |-> inv,
                        scale0 |-> s, invertY0 |-> inv]

FreshView == [reset |-> FALSE, cap |-> 0, grown |-> FALSE]

Rect(x0, y0, x1, y1) == [Min |-> Point(x0, y0), Max |-> Point(x1, y1)]

\* vector.NewRasterizer(0, 0); resets counts the Reset calls it has had.
NewRasterizer == [w |-> 0, h |-> 0, DrawOp |-> "Over", cmds |-> << >>,
                  resets |-> 0]

NilMask == [nil |-> TRUE, Rect |-> Rect(0, 0, 0, 0)]

NoRet == [op |-> "none", mask |-> NilMask, err |-> "nil", image |-> NilMask,
          panic |-> FALSE, outline |-> << >>, originX |-> 0, originY |-> 0,
          before |-> NewRasterizer]

\* The state New() returns.
Init ==
    /\ heap = [a \in {1} |-> [i \in 1 .. InitCap |-> ZeroSegment]]
    /\ segments = [arr |-> 1, len |-> 0, cap |-> InitCap]
    /\ scale = IdentityScale
    /\ invertY = FALSE
    /\ rasterizer = NewRasterizer
    /\ view = NilSlice
    /\ ret = NoRet
    /\ log = << >>
    /\ fresh = NoShape
    /\ twin = NoShape
    /\ scaleArg = NoArg
    /\ stale = FreshView
    /\ nops = 0

\* self.scale = scale; arg is the float the caller gave, if any.
StoreScale(s, arg) ==
    /\ scale' = s
    /\ scaleArg' = arg
    /\ fresh' = IF fresh.live THEN [fresh EXCEPT !.scale = s] ELSE fresh
    /\ twin' = IF twin.live THEN [twin EXCEPT !.scale = s] ELSE twin
    /\ ret' = NoRet
    /\ nops' = nops + 1
    /\ UNCHANGED << heap, segments, invertY, rasterizer, view, log, stale >>

SetScaleFract(s) == StoreScale(s, NoArg)

SetScale(f) == StoreScale(fixedFromFloat64(f), [set |-> TRUE, f |-> f])

\* A slip that would make the flag retroactive: the stored commands are
\* flipped when the flag changes.
InvertYRetroactive(active) ==
    /\ invertY' = active
    /\ heap' = IF active = invertY THEN heap
               ELSE [heap EXCEPT ![segments.arr] =
                       [i \in DOMAIN @ |->
                          [@[i] EXCEPT !.Args =
                             [j \in 1 .. 3 |->
                                Point(@[j].X, -@[j].Y)]]]]
    /\ fresh' = IF fresh.live THEN [fresh EXCEPT !.invertY = active] ELSE fresh
    /\ twin' = IF twin.live THEN [twin EXCEPT !.invertY = active] ELSE twin
    /\ ret' = NoRet
    /\ nops' = nops + 1
    /\ UNCHANGED << segments, scale, rasterizer, view, log, scaleArg,
                    stale >>

InvertY(active) ==
    /\ invertY' = active
    /\ fresh' = IF fresh.live THEN [fresh EXCEPT !.invertY = active] ELSE fresh
    /\ twin' = IF twin.live THEN [twin EXCEPT !.invertY = active] ELSE twin
    /\ ret' = NoRet
    /\ nops' = nops + 1
    /\ UNCHANGED << heap, segments, scale, rasterizer, view, log,
                    scaleArg, stale >>

\* sfnt.Segments(self.segments): the caller's header shares the array.
Segments ==
    /\ view' = segments
    /\ stale' = FreshView
    /\ ret' = NoRet
    /\ nops' = nops + 1
    /\ UNCHANGED << heap, segments, scale, invertY, rasterizer, log,
                    fresh, twin, scaleArg >>

-----------------------------------------------------------------------------
(* Shape: appending commands *)

\* if !self.invertY { y = -y }
FlipY(y, inv) == IF ~inv THEN -y ELSE y

\* A slip: the product is taken without the shift back to 26.6.
ScaleByNoShift(v, s) == IF s # IdentityScale THEN v * s ELSE v

\* A slip: the product is truncated instead of rounded.
ScaleByTruncating(v, s) ==
    IF s # IdentityScale THEN (v * s) \div 64 ELSE v

\* if self.scale != 64 { v = v.Mul(self.scale) }
ScaleBy(v, s) == IF s # IdentityScale THEN Mul(v, s) ELSE v

\* The point a method stores for the raw point p.
StoredPoint(p, s, inv) == Point(ScaleBy(p.X, s), ScaleBy(FlipY(p.Y, inv), s))

\* The sfnt.Segment a ...ToFract method builds from its arguments.
StoredSegment(op, raw, s, inv) ==
    CASE op = "MoveTo" ->
           Segment("MoveTo", StoredPoint(raw[1], s, inv), ZeroPoint, ZeroPoint)
      [] op = "LineTo" ->
           Segment("LineTo", StoredPoint(raw[1], s, inv), ZeroPoint, ZeroPoint)
      [] op = "QuadTo" ->
           Segment("QuadTo", StoredPoint(raw[1], s, inv),
                   StoredPoint(raw[2], s, inv), ZeroPoint)
      [] op = "CubeTo" ->
           Segment("CubeTo", StoredPoint(raw[1], s, inv),
                   StoredPoint(raw[2], s, inv), StoredPoint(raw[3], s, inv))

\* The same call on a history Shape.
GhostAppend(sh, op, raw) ==
    IF sh.live
    THEN [sh EXCEPT !.segments =
             Append(@, StoredSegment(op, raw, sh.scale, sh.invertY))]
    ELSE sh

\* self.segments = append(self.segments, sfnt.Segment{...})
AppendCommand(op, raw) ==
    LET r == AppendSlice(heap, segments,
                         StoredSegment(op, raw, scale, invertY))
    IN  /\ heap' = Collect(r.heap, {r.slice, view})
        /\ segments' = r.slice
        /\ log' = Append(log, [op |-> op, raw |-> raw, scale |-> scale,
                               invertY |-> invertY, scaleArg |-> scaleArg])
        /\ fresh' = GhostAppend(fresh, op, raw)
        /\ twin' = GhostAppend(twin, op, raw)
        /\ stale' = IF r.slice.arr # segments.arr
                    THEN [stale EXCEPT !.grown = TRUE] ELSE stale
        /\ ret' = NoRet
        /\ nops' = nops + 1
        /\ UNCHANGED << scale, invertY, rasterizer, view, scaleArg >>

MoveToFract(x, y) == AppendCommand("MoveTo", << Point(x, y) >>)

LineToFract(x, y) == AppendCommand("LineTo", << Point(x, y) >>)

QuadToFract(ctrlX, ctrlY, x, y) ==
    AppendCommand("QuadTo", << Point(ctrlX, ctrlY), Point(x, y) >>)

CubeToFract(cx1, cy1, cx2, cy2, x, y) ==
    AppendCommand("CubeTo", << Point(cx1, cy1), Point(cx2, cy2), Point(x, y) >>)

\* Fract(x << 6)
ShiftIn(x) == (x * 64)

MoveTo(x, y) == MoveToFract(ShiftIn(x), ShiftIn(y))

LineTo(x, y) == LineToFract(ShiftIn(x), ShiftIn(y))

QuadTo(ctrlX, ctrlY, x, y) ==
    QuadToFract(ShiftIn(ctrlX), ShiftIn(ctrlY), ShiftIn(x), ShiftIn(y))

CubeTo(cx1, cy1, cx2, cy2, x, y) ==
    CubeToFract(ShiftIn(cx1), ShiftIn(cy1), ShiftIn(cx2), ShiftIn(cy2),
                ShiftIn(x), ShiftIn(y))

\* A slip: the first command survives the reset.
ResetSliceKeepingOne(s) == [s EXCEPT !.len = IF s.len > 0 THEN 1 ELSE 0]

\* self.segments[0 : 0]: same array, same capacity, length 0.
ResetSlice(s) == [s EXCEPT !.len = 0]

\* A different Reset: the Shape takes new storage (make(..., 0, 8)) and
\* leaves the old array to whoever holds a view of it.
ResetReallocating ==
    LET a == CHOOSE i \in ArrIds \ DOMAIN heap :
                 \A j \in ArrIds \ DOMAIN heap : i <= j
        s == [arr |-> a, len |-> 0, cap |-> InitCap]
        h == [i \in DOMAIN heap \cup {a} |->
                 IF i = a THEN [k \in 1 .. InitCap |-> ZeroSegment]
                 ELSE heap[i]]
    IN  /\ segments' = s
        /\ heap' = Collect(h, {s, view})
        /\ log' = << >>
        /\ fresh' = NewShape
        /\ twin' = NewShapeSet(scale, invertY)
        /\ stale' = [stale EXCEPT !.reset = TRUE, !.cap = segments.cap]
        /\ ret' = NoRet
        /\ nops' = nops + 1
        /\ UNCHANGED << scale, invertY, rasterizer, view, scaleArg >>

\* The history keeps one entry per command still stored.
Reset ==
    /\ segments' = ResetSlice(segments)
    /\ heap' = Collect(heap, {segments', view})
    /\ log' = SubSeq(log, 1, segments'.len)
    /\ fresh' = NewShape
    /\ twin' = NewShapeSet(scale, invertY)
    /\ stale' = [stale EXCEPT !.reset = TRUE, !.cap = segments.cap]
    /\ ret' = NoRet
    /\ nops' = nops + 1
    /\ UNCHANGED << scale, invertY, rasterizer, view, scaleArg >>

-----------------------------------------------------------------------------
(* Rasterization driver *)

SetMin(S) == CHOOSE v \in S : \A w \in S : v <= w

SetMax(S) == CHOOSE v \in S : \A w \in S : v >= w

\* The points a command carries.
SegPoints(seg) == {seg.Args[i] : i \in 1 .. NArgs(seg.Op)}

OutlinePoints(outline) ==
    UNION {SegPoints(outline[i]) : i \in 1 .. Len(outline)}

\* outline.Bounds(): the zero rectangle for no command, else the
\* smallest rectangle holding every point of every command.
Bounds(outline) ==
    IF Len(outline) = 0 THEN Rect(0, 0, 0, 0)
    ELSE LET P == OutlinePoints(outline)
         IN  Rect(SetMin({p.X : p \in P}), SetMin({p.Y : p \in P}),
                  SetMax({p.X : p \in P}), SetMax({p.Y : p \in P}))

\* A slip: the size is taken with the floor instead of the ceiling.
figureOutBoundsFloorSize(bounds, originX, originY) ==
    LET floorMinX   == fixedFloor(bounds.Min.X)
        floorMinY   == fixedFloor(bounds.Min.Y)
        normOffsetX == -floorMinX + fixedFract(originX)
        normOffsetY == -floorMinY + fixedFract(originY)
    IN  [width       |-> fixedToIntFloor(bounds.Max.X + normOffsetX),
         height      |-> fixedToIntFloor(bounds.Max.Y + normOffsetY),
         normOffsetX |-> normOffsetX,
         normOffsetY |-> normOffsetY,
         rectOffset  |-> Point(fixedToIntFloor(floorMinX),
                               fixedToIntFloor(floorMinY))]

\* A different design: the whole-pixel part of the origin is added to
\* the mask's final offset.
figureOutBoundsWithOrigin(bounds, originX, originY) ==
    LET floorMinX   == fixedFloor(bounds.Min.X)
        floorMinY   == fixedFloor(bounds.Min.Y)
        normOffsetX == -floorMinX + fixedFract(originX)
        normOffsetY == -floorMinY + fixedFract(originY)
    IN  [width       |-> Ceil(bounds.Max.X + normOffsetX),
         height      |-> Ceil(bounds.Max.Y + normOffsetY),
         normOffsetX |-> normOffsetX,
         normOffsetY |-> normOffsetY,
         rectOffset  |-> Point(fixedToIntFloor(floorMinX)
                                 + fixedToIntFloor(originX),
                               fixedToIntFloor(floorMinY)
                                 + fixedToIntFloor(originY))]

figureOutBounds(bounds, originX, originY) ==
    LET floorMinX   == fixedFloor(bounds.Min.X)
        floorMinY   == fixedFloor(bounds.Min.Y)
        normOffsetX == -floorMinX + fixedFract(originX)
        normOffsetY == -floorMinY + fixedFract(originY)
    IN  [width       |-> Ceil(bounds.Max.X + normOffsetX),
         height      |-> Ceil(bounds.Max.Y + normOffsetY),
         normOffsetX |-> normOffsetX,
         normOffsetY |-> normOffsetY,
         rectOffset  |-> Point(fixedToIntFloor(floorMinX),
                               fixedToIntFloor(floorMinY))]

\* The float point the accumulator is given for a command's point.
OffsetPoint(p, offsetX, offsetY) ==
    Point(fixedToF32(p.X + offsetX), fixedToF32(p.Y + offsetY))

\* The accumulator after every command of the outline was forwarded to
\* it, each point moved by the offset.  (The builder makes no Op other
\* than the four, so the default case's panic is never taken.)
processOutline(rast, outline, offsetX, offsetY) ==
    [rast EXCEPT !.cmds = @ \o
        [i \in 1 .. Len(outline) |->
            [Op   |-> outline[i].Op,
             Args |-> [j \in 1 .. NArgs(outline[i].Op) |->
                         OffsetPoint(outline[i].Args[j], offsetX, offsetY)]]]]

\* Gives the mask, the error and the accumulator's new state.  The mask
\* is its rectangle: its pixels are the accumulator's work.
etxtLikeRasterize(outline, rast, originX, originY) ==
    LET bounds == Bounds(outline)
        fob    == figureOutBounds(bounds, originX, originY)
        \* rasterizer.Reset(width, height); rasterizer.DrawOp = draw.Src
        r1     == [w |-> fob.width, h |-> fob.height, DrawOp |-> "Src",
                   cmds |-> << >>, resets |-> rast.resets + 1]
        \* image.NewAlpha(rasterizer.Bounds())
        rect0  == Rect(0, 0, r1.w, r1.h)
        r2     == processOutline(r1, outline, fob.normOffsetX, fob.normOffsetY)
        \* mask.Rect.Add(rectOffset)
        rect1  == Rect(rect0.Min.X + fob.rectOffset.X,
                       rect0.Min.Y + fob.rectOffset.Y,
                       rect0.Max.X + fob.rectOffset.X,
                       rect0.Max.Y + fob.rectOffset.Y)
    IN  [mask |-> [nil |-> FALSE, Rect |-> rect1], err |-> "nil",
         rasterizer |-> r2]

\* A slip: only the empty outline is taken as nothing to draw.
RasterizeAnyCommand(outline, rast, originX, originY) ==
    IF Len(outline) > 0
    THEN etxtLikeRasterize(outline, rast, originX, originY)
    ELSE [mask |-> NilMask, err |-> "nil", rasterizer |-> rast]

\* Rasterize: the first command that is not a MoveTo sends the outline
\* to etxtLikeRasterize; with none, (nil, nil).
Rasterize(outline, rast, originX, originY) ==
    IF \E i \in 1 .. Len(outline) : outline[i].Op # "MoveTo"
    THEN etxtLikeRasterize(outline, rast, originX, originY)
    ELSE [mask |-> NilMask, err |-> "nil", rasterizer |-> rast]

\* What a rasterizing call leaves behind.
Returns(op, r, originX, originY) ==
    /\ ret' = [op |-> op, mask |-> r.mask, err |-> r.err, image |-> NilMask,
               panic |-> FALSE, outline |-> Elems(heap, segments),
               originX |-> originX, originY |-> originY,
               before |-> rasterizer]
    /\ rasterizer' = r.rasterizer
    /\ nops' = nops + 1
    /\ UNCHANGED << heap, segments, scale, invertY, view, log, fresh,
                    twin, scaleArg, stale >>

\* A caller's Rasterize(shape.Segments(), rasterizer, originX, originY).
RasterizeCall(originX, originY) ==
    Returns("Rasterize",
            Rasterize(Elems(heap, segments), rasterizer, originX, originY),
            originX, originY)

\* Shape.RasterizeFract
RasterizeFract(offsetX, offsetY) ==
    IF segments.len = 0
    THEN Returns("RasterizeFract",
                 [mask |-> NilMask, err |-> "nil", rasterizer |-> rasterizer],
                 offsetX, offsetY)
    ELSE Returns("RasterizeFract",
                 Rasterize(Elems(heap, segments), rasterizer, offsetX, offsetY),
                 offsetX, offsetY)

\* Shape.Rasterize
ShapeRasterize == RasterizeFract(0, 0)

\* Shape.Paint.  With no command it returns nil.  Otherwise it reads
\* mask.Rect of what Rasterize gave: a nil mask makes that a nil pointer
\* dereference, which panics.  The image is its rectangle.
Paint ==
    LET r == Rasterize(Elems(heap, segments), rasterizer, 0, 0)
    IN  /\ ret' = IF segments.len = 0
                  THEN [NoRet EXCEPT !.op = "Paint",
                                     !.before = rasterizer]
                  ELSE [op |-> "Paint", mask |-> r.mask, err |-> r.err,
                        image |-> IF r.mask.nil THEN NilMask
                                  ELSE [nil |-> FALSE, Rect |-> r.mask.Rect],
                        panic |-> r.mask.nil,
                        outline |-> Elems(heap, segments),
                        originX |-> 0, originY |-> 0,
                        before |-> rasterizer]
        /\ rasterizer' = IF segments.len = 0 THEN rasterizer
                         ELSE r.rasterizer
        /\ nops' = nops + 1
        /\ UNCHANGED << heap, segments, scale, invertY, view, log, fresh,
                        twin, scaleArg, stale >>

-----------------------------------------------------------------------------
(* Specifications *)

\* A panic ends the program; n bounds the number of calls.
Within(n) == nops < n /\ ~ret.panic

\* The builder: fractional commands, scale and invert-Y settings, Reset.
ShapeScales == {IdentityScale, 32, 128}

ShapePts == {Point(64, 1), Point(-96, 130)}

ShapeQuads == {<< Point(64, 1), Point(-96, 130) >>,
               << Point(3, -33), Point(64, 1) >>}

ShapeCubes == {<< Point(64, 1), Point(-96, 130), Point(3, -33) >>,
               << Point(0, 5), Point(64, 64), Point(64, 1) >>}

NextShape ==
    \/ \E s \in ShapeScales : Within(MaxOps) /\ SetScaleFract(s)
    \/ \E b \in BOOLEAN : Within(MaxOps) /\ InvertY(b)
    \/ \E p \in ShapePts : Within(MaxOps) /\ MoveToFract(p.X, p.Y)
    \/ \E p \in ShapePts : Within(MaxOps) /\ LineToFract(p.X, p.Y)
    \/ \E q \in ShapeQuads :
         Within(MaxOps) /\ QuadToFract(q[1].X, q[1].Y, q[2].X, q[2].Y)
    \/ \E c \in ShapeCubes :
         Within(MaxOps)
         /\ CubeToFract(c[1].X, c[1].Y, c[2].X, c[2].Y, c[3].X, c[3].Y)
    \/ Within(MaxOps) /\ Reset

SpecShape == Init /\ [][NextShape]_vars

\* The builder's whole-pixel methods under SetScale(float64).
\* Floats are in 1/256ths: 2.0, 3.0, -1.0, 1.5, 0.5, 1.0, 0.0.
IntScales == {512, 768, -256, 384, 128, 256, 0}

IntPts == {Point(5, 5), Point(-3, 2)}

NextInt ==
    \/ \E f \in IntScales : Within(MaxOps) /\ SetScale(f)
    \/ \E b \in BOOLEAN : Within(MaxOps) /\ InvertY(b)
    \/ \E p \in IntPts : Within(MaxOps) /\ MoveTo(p.X, p.Y)
    \/ \E p \in IntPts : Within(MaxOps) /\ LineTo(p.X, p.Y)
    \/ \E p, q \in IntPts : Within(MaxOps) /\ QuadTo(p.X, p.Y, q.X, q.Y)
    \/ \E p \in IntPts :
         Within(MaxOps) /\ CubeTo(p.X, p.Y, p.Y, p.X, p.X + 1, p.Y - 1)

SpecInt == Init /\ [][NextInt]_vars

\* fixedFromFloat64 on every multiple of 1/256 up to MaxFloat/256 in
\* magnitude, through SetScale.
NextFixed ==
    \E f \in -MaxFloat .. MaxFloat : Within(MaxOps) /\ SetScale(f)

SpecFixed == Init /\ [][NextFixed]_vars

\* Building a path and rasterizing it.
RasterPts == {Point(0, 0), Point(640, -64), Point(-70, 100)}

RasterQuads == {<< Point(33, 200), Point(640, -64) >>,
                << Point(-129, -1), Point(0, 0) >>}

RasterCubes == {<< Point(0, 0), Point(65, -130), Point(128, 128) >>,
                << Point(-64, 640), Point(700, 1), Point(-70, 100) >>}

Origins == {Point(0, 0), Point(33, 17), Point(-70, 130)}

NextRaster ==
    \/ \E p \in RasterPts : Within(MaxOps) /\ MoveToFract(p.X, p.Y)
    \/ \E p \in RasterPts : Within(MaxOps) /\ LineToFract(p.X, p.Y)
    \/ \E q \in RasterQuads :
         Within(MaxOps) /\ QuadToFract(q[1].X, q[1].Y, q[2].X, q[2].Y)
    \/ \E c \in RasterCubes :
         Within(MaxOps)
         /\ CubeToFract(c[1].X, c[1].Y, c[2].X, c[2].Y, c[3].X, c[3].Y)
    \/ \E o \in Origins : Within(MaxOps) /\ RasterizeCall(o.X, o.Y)
    \/ \E o \in Origins : Within(MaxOps) /\ RasterizeFract(o.X, o.Y)
    \/ Within(MaxOps) /\ ShapeRasterize
    \/ Within(MaxOps) /\ Paint

SpecRaster == Init /\ [][NextRaster]_vars

\* Views of the command sequence across Reset and growth.
AliasPts == {Point(64, 0)}

NextAlias ==
    \/ \E p \in AliasPts : Within(MaxAliasOps) /\ MoveToFract(p.X, p.Y)
    \/ \E p \in AliasPts : Within(MaxAliasOps) /\ LineToFract(p.X, p.Y)
    \/ Within(MaxAliasOps) /\ Segments
    \/ Within(MaxAliasOps) /\ Reset

SpecAlias == Init /\ [][NextAlias]_vars

-----------------------------------------------------------------------------
(* Properties *)

\* The Shape's own command sequence.
Stored == Elems(heap, segments)

AllMoveTo(outline) == \A i \in 1 .. Len(outline) : outline[i].Op = "MoveTo"

RasterizeOps == {"Rasterize", "RasterizeFract"}

FloorDiv64(v) == v \div 64

CeilDiv64(v) == -((-v) \div 64)

Least(a, b) == IF a < b THEN a ELSE b

\* C1: a rasterizing call on a path that is empty or holds only MoveTo
\* commands returns (nil, nil) for every origin, and the accumulator is
\* as it was before the call: not reset, no command received.
C1_NothingToDraw ==
    (ret.op \in RasterizeOps /\ AllMoveTo(ret.outline))
        => /\ ret.mask.nil
           /\ ret.err = "nil"
           /\ rasterizer = ret.before

\* A call on a path of two or more MoveTo commands, at an origin off zero.
C1_Witness ==
    /\ ret.op = "Rasterize"
    /\ Len(ret.outline) >= 2
    /\ AllMoveTo(ret.outline)
    /\ ret.originX # 0
    /\ ret.mask.nil

C3_CanvasTight ==
    (ret.op \in RasterizeOps /\ ~AllMoveTo(ret.outline))
        => LET b  == Bounds(ret.outline)
               nx == -(64 * FloorDiv64(b.Min.X)) + (ret.originX % 64)
               ny == -(64 * FloorDiv64(b.Min.Y)) + (ret.originY % 64)
               w  == rasterizer.w
               h  == rasterizer.h
           IN  /\ w >= 0 /\ h >= 0
               /\ \A p \in OutlinePoints(ret.outline) :
                     /\ 0 <= p.X + nx /\ p.X + nx <= w * 64
                     /\ 0 <= p.Y + ny /\ p.Y + ny <= h * 64
               /\ w >= 1 => (w - 1) * 64 < b.Max.X + nx
               /\ h >= 1 => (h - 1) * 64 < b.Max.Y + ny
               /\ Len(rasterizer.cmds) = Len(ret.outline)
               /\ \A i \in 1 .. Len(ret.outline) :
                     /\ rasterizer.cmds[i].Op = ret.outline[i].Op
                     /\ \A j \in 1 .. NArgs(ret.outline[i].Op) :
                           /\ rasterizer.cmds[i].Args[j].X
                                = 4 * (ret.outline[i].Args[j].X + nx)
                           /\ rasterizer.cmds[i].Args[j].Y
                                = 4 * (ret.outline[i].Args[j].Y + ny)

\* A path whose minimum is off the pixel grid and below zero, asked for
\* at an origin with a sub-pixel part, on a canvas of several pixels.
C3_Witness ==
    /\ ret.op \in RasterizeOps
    /\ ~ret.mask.nil
    /\ Len(ret.outline) >= 2
    /\ Bounds(ret.outline).Min.X < 0
    /\ Bounds(ret.outline).Min.X % 64 # 0
    /\ ret.originX % 64 # 0
    /\ rasterizer.w >= 2
    /\ rasterizer.h >= 2

\* C9 as stated: Paint on a shape whose rasterization is "nothing to
\* draw" returns nil and does not abort.
C9_PaintNilSafe ==
    (ret.op = "Paint" /\ AllMoveTo(ret.outline))
        => ret.image.nil /\ ~ret.panic

\* The exact product of a 26.6 value and a 26.6 factor, in 1/4096ths,
\* rounded to the nearest 26.6 unit with ties up.
RoundedProduct(v, s) == (v * s + 32) \div 64

Sign(v) == IF v > 0 THEN 1 ELSE IF v < 0 THEN -1 ELSE 0

\* C4: every stored command holds what its raw input gives under the
\* scale and the invert-Y flag in effect when it was appended, whatever
\* was set later; and of two commands with the same raw point and scale,
\* appended under opposite flags, the stored Y never have the same sign
\* (under a positive scale: against the raw Y's sign with the flag
\* inactive, with it when active).
C4_NotRetroactive ==
    /\ Len(log) = segments.len
    /\ \A i \in 1 .. Len(log) :
          /\ Stored[i] = StoredSegment(log[i].op, log[i].raw, log[i].scale,
                                       log[i].invertY)
          /\ log[i].scale > 0 =>
                \A j \in 1 .. NArgs(log[i].op) :
                    Sign(Stored[i].Args[j].Y) \in
                        {0, IF log[i].invertY THEN Sign(log[i].raw[j].Y)
                            ELSE -Sign(log[i].raw[j].Y)}
    /\ \A i, k \in 1 .. Len(log) :
          (/\ log[i].raw = log[k].raw /\ log[i].op = log[k].op
           /\ log[i].scale = log[k].scale
           /\ log[i].invertY # log[k].invertY)
            => \A j \in 1 .. NArgs(log[i].op) :
                  Sign(Stored[i].Args[j].Y) * Sign(Stored[k].Args[j].Y) <= 0

\* Append A, toggle invert-Y twice over (so the flag now differs from the
\* one A was appended under), append B with the same raw point: A and B
\* are stored with strictly opposite Y.
C4_Witness ==
    /\ Len(log) >= 2
    /\ log[1].raw = log[2].raw
    /\ log[1].scale = log[2].scale
    /\ ~log[1].invertY /\ log[2].invertY
    /\ Stored[1].Args[1].Y < 0
    /\ Stored[2].Args[1].Y > 0

\* C5: with invert-Y inactive the stored Y is the scaled raw Y negated,
\* with invert-Y active it is not negated (New() starts inactive); and
\* LineTo(x, y) after SetScale(k), k a whole number, stores the endpoint
\* (k*x*64, -k*y*64) (Y not negated when invert-Y is active), the very
\* segment LineTo(k*x, k*y) stores at the identity scale.
C5_WholeScale ==
    /\ nops = 0 => (~invertY /\ scale = 64)
    /\ Len(log) = segments.len
    /\ \A i \in 1 .. Len(log) :
          LET e == log[i]
          IN  /\ \A j \in 1 .. NArgs(e.op) :
                    /\ 64 * Stored[i].Args[j].X = e.raw[j].X * e.scale
                    /\ 64 * Stored[i].Args[j].Y =
                          IF e.invertY THEN e.raw[j].Y * e.scale
                          ELSE -(e.raw[j].Y * e.scale)
              /\ (e.op = "LineTo" /\ e.scaleArg.set /\ e.scaleArg.f % 256 = 0)
                    => LET k == e.scaleArg.f \div 256
                           x == e.raw[1].X \div 64
                           y == e.raw[1].Y \div 64
                       IN  /\ Stored[i].Args[1] =
                                Point(k * x * 64,
                                      IF e.invertY THEN k * y * 64
                                      ELSE -(k * y * 64))
                           /\ Stored[i] =
                                StoredSegment("LineTo",
                                    << Point(ShiftIn(k * x), ShiftIn(k * y)) >>,
                                    IdentityScale, e.invertY)

\* SetScale(2.0), then LineTo(5, 5) with invert-Y inactive: (640, -640).
C5_Witness ==
    /\ Len(log) >= 1
    /\ log[1].op = "LineTo"
    /\ log[1].scaleArg = [set |-> TRUE, f |-> 512]
    /\ log[1].raw[1] = Point(320, 320)
    /\ ~log[1].invertY
    /\ Stored[1].Args[1] = Point(640, -640)

\* C6 as stated: after Reset, the stored commands are those of a Shape
\* freshly built by New() and given the same calls since.
C6_ResetAsNew ==
    fresh.live => Stored = fresh.segments

\* C6 (amended): after Reset, the stored commands are as many as those of
\* a fresh Shape given the same calls since, and equal those of a fresh
\* Shape that was first given the scale and the invert-Y setting the
\* Shape had at the Reset (Reset keeps both); so they equal the plain
\* New() Shape's when the scale was 64 and invert-Y inactive at the Reset.
C6_ResetKeepsSettings ==
    fresh.live =>
        /\ Len(Stored) = Len(fresh.segments)
        /\ Stored = twin.segments
        /\ (twin.scale0 = 64 /\ ~twin.invertY0) => Stored = fresh.segments

\* A Reset of a Shape holding two commands, then one append: one command
\* is stored, and the storage past it still holds an old command.
C6_Witness ==
    /\ fresh.live
    /\ segments.len = 1
    /\ Len(twin.segments) = 1
    /\ heap[segments.arr][2] # ZeroSegment

\* C7 as stated: with invert-Y inactive every stored Y is the negation of
\* the rounded product of the raw Y and the scale (scale, then flip).
C7_FlipCommutes ==
    \A i \in 1 .. Len(log) :
        ~log[i].invertY =>
            \A j \in 1 .. NArgs(log[i].op) :
                Stored[i].Args[j].Y
                    = -RoundedProduct(log[i].raw[j].Y, log[i].scale)

\* C7 (amended): with invert-Y inactive every stored Y is the negation of
\* the rounded product of the raw Y and the scale, except at a tie (the
\* exact product lies halfway between two units), where the code's order,
\* flip then scale with ties rounded up, stores one unit more.  Under a
\* whole-number factor there is no tie.
C7_FlipCommutesOffTies ==
    /\ Len(log) = segments.len
    /\ \A i \in 1 .. Len(log) :
        ~log[i].invertY =>
            \A j \in 1 .. NArgs(log[i].op) :
                LET y == log[i].raw[j].Y
                    s == log[i].scale
                IN  /\ (y * s) % 64 # 32 =>
                          Stored[i].Args[j].Y = -RoundedProduct(y, s)
                    /\ (y * s) % 64 = 32 =>
                          Stored[i].Args[j].Y = -RoundedProduct(y, s) + 1
                    /\ s % 64 = 0 => (y * s) % 64 # 32

\* A cubic curve stored under the factor 1/2 with invert-Y inactive, one
\* of its points at a tie and another off it.
C7_Witness ==
    \E i \in 1 .. Len(log) :
        /\ log[i].op = "CubeTo"
        /\ log[i].scale = 32
        /\ ~log[i].invertY
        /\ (log[i].raw[1].Y * 32) % 64 = 32
        /\ (log[i].raw[2].Y * 32) % 64 # 32
        /\ Stored[i].Args[1].Y = -RoundedProduct(log[i].raw[1].Y, 32) + 1

\* C8: a float64 that is a multiple of 1/256 converts to floor(f*64 + 1/2):
\* an exact sixty-fourth k/64 to k, and back to k/64; a value halfway
\* between k and k+1 to k+1, above and below zero alike.
C8_RoundHalfUp ==
    scaleArg.set =>
        /\ scale = (scaleArg.f + 2) \div 4
        /\ scaleArg.f % 4 = 0 =>
              /\ 4 * scale = scaleArg.f
              /\ fixedToF64(scale) = scaleArg.f
        /\ scaleArg.f % 4 = 2 => 4 * scale = scaleArg.f + 2

\* A tie below zero: -1.5/64 converts to -1.
C8_Witness ==
    /\ scaleArg.set
    /\ scaleArg.f = -6
    /\ scale = -1

\* C10 as stated: a view of the Shape taken before Reset, once Reset and k
\* appends within the kept capacity have followed, has its length still
\* and shows the k new commands in its first places; the Shape holds k.
C10_ViewSeesAppends ==
    (view.len >= 1 /\ stale.reset /\ Len(twin.segments) <= stale.cap)
        => /\ Len(Elems(heap, view)) = view.len
           /\ segments.len = Len(twin.segments)
           /\ \A i \in 1 .. Least(segments.len, view.len) :
                 Elems(heap, view)[i] = twin.segments[i]

\* C10 (amended): the same, for a view whose storage the Shape still
\* uses: no append took new storage between the taking of the view and
\* now.
C10_SharedViewSeesAppends ==
    (view.len >= 1 /\ stale.reset /\ ~stale.grown)
        => /\ Len(Elems(heap, view)) = view.len
           /\ segments.len = Len(twin.segments)
           /\ segments.len <= stale.cap
           /\ \A i \in 1 .. Least(segments.len, view.len) :
                 Elems(heap, view)[i] = twin.segments[i]
           /\ \A i \in 1 .. segments.len : Stored[i] = twin.segments[i]

\* A view of two MoveTo commands; after Reset and one LineTo its first
\* element is the LineTo and its second the old MoveTo.
C10_Witness ==
    /\ view.len = 2
    /\ stale.reset /\ ~stale.grown
    /\ segments.len = 1
    /\ Elems(heap, view)[1].Op = "LineTo"
    /\ Elems(heap, view)[2].Op = "MoveTo"

=============================================================================
